---- MODULE Spec2Model ----
(***************************************************************************)
(* Model of the Xcode project patching scripts: fix_project.py,           *)
(* add_missing_files.py, simple_fix.py, fix_file_paths.py,                *)
(* fix_correct_paths.py and fix_nested_paths.py.                          *)
(*                                                                         *)
(* The manifest text (project.pbxproj) is a sequence of tokens, one per   *)
(* line or marker.  A token records what the scripts' regular expressions *)
(* and string replacements can tell apart: its kind, the identifier in    *)
(* it, the file name in its comment, the path in it, whether its comment  *)
(* ends with "in Sources", and whether it is written in the               *)
(* backslash-escaped form that add_missing_files.py reads and writes.     *)
(***************************************************************************)
EXTENDS Integers, Sequences, FiniteSets, TLC

\* Bounds of the model.
MaxRuns == 2
MaxFiles == 2
MaxIOFailures == 1
MaxIdRuns == 1
MaxCollisions == 1

----------------------------------------------------------------------------
\* Tokens of the manifest text.

Tok(t, id, name, path, ref, ins, esc) ==
    [t |-> t, id |-> id, name |-> name, path |-> path, ref |-> ref, ins |-> ins, esc |-> esc]

\* "/* Begin <kind> section */"; escaped form "/ Begin <kind> section /".
BeginMarker(kind, esc) == Tok("Begin", 0, kind, "", 0, FALSE, esc)
\* "/* End <kind> section */"; escaped form "/ End <kind> section /".
EndMarker(kind, esc) == Tok("End", 0, kind, "", 0, FALSE, esc)
\* "<id> /* <name> */ = {"; escaped form "<id> / <name> / = \{".
Hdr(id, name, esc) == Tok("Hdr", id, name, "", 0, FALSE, esc)
\* "<key> = <value>;" inside a dictionary block.
Attr(name, path) == Tok("Attr", 0, name, path, 0, FALSE, FALSE)
\* "<key> = ("; escaped form "<key> = \".
ListOpen(key, esc) == Tok("ListOpen", 0, key, "", 0, FALSE, esc)
\* ");"; escaped form "\;".
ListClose(esc) == Tok("ListClose", 0, "", "", 0, FALSE, esc)
\* "};"
Close == Tok("Close", 0, "", "", 0, FALSE, FALSE)
\* "<id> /* <name>[ in Sources] */," a member of a list.
Item(id, name, ins, esc) == Tok("Item", id, name, "", 0, ins, esc)
\* White space written by a replacement string.
Ws(name, esc) == Tok("Ws", 0, name, "", 0, FALSE, esc)
\* Any other line of the manifest.
Other(name) == Tok("Other", 0, name, "", 0, FALSE, FALSE)

----------------------------------------------------------------------------
\* Sequence helpers.

Min(S) == CHOOSE x \in S : \A y \in S : x <= y
Max(S) == CHOOSE x \in S : \A y \in S : x >= y

Range(s) == {s[i] : i \in 1..Len(s)}

\* The first index after `from` whose token satisfies P, or 0.
FirstAfter(s, from, P(_)) ==
    LET I == {i \in (from + 1)..Len(s) : P(s[i])}
    IN  IF I = {} THEN 0 ELSE Min(I)

\* str.replace(old, new): every non-overlapping occurrence, left to right.
RECURSIVE ReplaceAll(_, _, _)
ReplaceAll(s, old, new) ==
    IF Len(old) = 0 \/ Len(s) < Len(old) THEN s
    ELSE IF SubSeq(s, 1, Len(old)) = old
         THEN new \o ReplaceAll(SubSeq(s, Len(old) + 1, Len(s)), old, new)
         ELSE <<Head(s)>> \o ReplaceAll(Tail(s), old, new)

\* The identifiers written in a piece of text.
IdsIn(s) == ({s[i].id : i \in 1..Len(s)} \cup {s[i].ref : i \in 1..Len(s)}) \ {0}

----------------------------------------------------------------------------
\* Paths and names.

\* files_to_add of fix_project.py
FixProjectFilesToAdd ==
    << "Sources/Core/DIContainer.swift",
       "Sources/Core/ErrorHandler.swift",
       "Sources/Core/AppEvents.swift",
       "Sources/Core/EventBus.swift",
       "Sources/Core/StateManager.swift",
       "Sources/Core/ErrorHandlerIntegration.swift",
       "Sources/Core/EventBusAdapter.swift" >>

\* files_to_add of add_missing_files.py (the first component of each pair)
MissingFilesToAdd ==
    << "Sources/Protocols/ServiceProtocols.swift",
       "Sources/Core/ErrorHandler.swift" >>

\* os.path.basename
basename(p) ==
    CASE p = "Sources/Core/DIContainer.swift" -> "DIContainer.swift"
      [] p = "Sources/Core/ErrorHandler.swift" -> "ErrorHandler.swift"
      [] p = "Sources/Core/AppEvents.swift" -> "AppEvents.swift"
      [] p = "Sources/Core/EventBus.swift" -> "EventBus.swift"
      [] p = "Sources/Core/StateManager.swift" -> "StateManager.swift"
      [] p = "Sources/Core/ErrorHandlerIntegration.swift" -> "ErrorHandlerIntegration.swift"
      [] p = "Sources/Core/EventBusAdapter.swift" -> "EventBusAdapter.swift"
      [] p = "Sources/Protocols/ServiceProtocols.swift" -> "ServiceProtocols.swift"
      [] p = "Sources/States/AppState.swift" -> "AppState.swift"
      [] OTHER -> p

\* The texts that contain the substring "Sources/Core".
ContainsSourcesCore(tok) ==
    tok.path \in ({"Sources/Core", "CapsWriter-mac/Sources/Core/DIContainer.swift"}
                  \cup {FixProjectFilesToAdd[i] : i \in 1..Len(FixProjectFilesToAdd)})

Take(s, n) == SubSeq(s, 1, IF n < Len(s) THEN n ELSE Len(s))

----------------------------------------------------------------------------
\* Locating text: the scripts' regular expressions.

\* re.search(r"(/\* Begin K section \*/.*?/\* End K section \*/)", content,
\* re.DOTALL): the first begin marker and the first end marker after it.
\* With esc the pattern is the one add_missing_files.py compiles,
\* r"(/\\* Begin K section \\*/.*?/\\* End K section \\*/)", which matches
\* markers written with backslashes in place of the stars.
\* The result is <<begin, end>>, with end = 0 when there is no match.
SectionSpan(content, kind, esc) ==
    LET b == FirstAfter(content, 0, LAMBDA t : t = BeginMarker(kind, esc))
        e == IF b = 0 THEN 0
             ELSE FirstAfter(content, b, LAMBDA t : t = EndMarker(kind, esc))
    IN  <<b, e>>

\* The tokens whose text contains "}" and ")".
HasRBrace(tok) == tok.t \in {"Close", "FileRef", "BuildFile"}
HasRParen(tok) == tok.t = "ListClose" /\ ~tok.esc

\* Where the list opened at j ends for the pattern's tail.
\* "[^)]*\);" ends at the first ")" after j, which must be ");".
\* With esc the tail is "[^)]*\\)" followed by ";", where the parentheses
\* are a group of the pattern: it ends at the last "\;" before the first ")".
ListEnd(content, j, esc) ==
    LET p == FirstAfter(content, j, HasRParen)
    IN  IF ~esc THEN p
        ELSE LET lim == IF p = 0 THEN Len(content) + 1 ELSE p
                 K == {k \in (j + 1)..(lim - 1) : content[k] = ListClose(TRUE)}
             IN  IF K = {} THEN 0 ELSE Max(K)

\* The list a header at i reaches: "= \{[^}]*key = \(" takes the last
\* "key = (" before the first "}" after the header from which the tail of
\* the pattern still matches.  0 when there is none.
ListStart(content, i, key, esc) ==
    LET rb == FirstAfter(content, i, HasRBrace)
        lim == IF rb = 0 THEN Len(content) + 1 ELSE rb
        J == {j \in (i + 1)..(lim - 1) :
                /\ content[j] = ListOpen(key, esc)
                /\ ListEnd(content, j, esc) # 0}
    IN  IF J = {} THEN 0 ELSE Max(J)

\* re.search(r"([A-F0-9]{24}) /\* Sources \*/ = \{[^}]*key = \([^)]*\);",
\* content): the leftmost header of an object commented "Sources" from which
\* the pattern matches.  <<first, last>>, with last = 0 when no match.
BlockSpan(content, key, esc) ==
    LET I == {i \in 1..Len(content) :
                /\ content[i].t = "Hdr"
                /\ content[i].name = "Sources"
                /\ content[i].esc = esc
                /\ ListStart(content, i, key, esc) # 0}
    IN  IF I = {} THEN <<0, 0>>
        ELSE <<Min(I), ListEnd(content, ListStart(content, Min(I), key, esc), esc)>>

----------------------------------------------------------------------------
\* Rendering entries.

\* The file-reference line each script writes for a file.
fileref_entry(script, file_uuid, file_path) ==
    CASE script = "fix_project" ->
           Tok("FileRef", file_uuid, basename(file_path), basename(file_path), 0, FALSE, FALSE)
      [] script = "add_missing_files" ->
           Tok("FileRef", file_uuid, basename(file_path), file_path, 0, FALSE, TRUE)
      [] OTHER ->
           Tok("FileRef", file_uuid, "DIContainer.swift", "Sources/Core/DIContainer.swift", 0, FALSE, FALSE)

\* The build-file line each script writes for a file.
buildfile_entry(script, build_uuid, file_ref_uuid, file_path) ==
    Tok("BuildFile", build_uuid, basename(file_path), "", file_ref_uuid, TRUE,
        script = "add_missing_files")

\* fileref_section with the files taken in the reverse order.
fileref_section_reversed(script, files, file_refs) ==
    [i \in 1..Len(files) |->
        fileref_entry(script, file_refs[Len(files) + 1 - i], files[Len(files) + 1 - i])]

fileref_section(script, files, file_refs) ==
    [i \in 1..Len(files) |-> fileref_entry(script, file_refs[i], files[i])]

buildfile_section(script, files, file_refs, build_files) ==
    [i \in 1..Len(files) |-> buildfile_entry(script, build_files[i], file_refs[i], files[i])]

core_group_children(files, file_refs) ==
    [i \in 1..Len(files) |-> Item(file_refs[i], basename(files[i]), FALSE, FALSE)]

core_group_def(sources_core_group_uuid, files, file_refs) ==
    << Hdr(sources_core_group_uuid, "Core", FALSE),
       Attr("isa = PBXGroup;", ""),
       ListOpen("children", FALSE) >>
    \o core_group_children(files, file_refs)
    \o << ListClose(FALSE),
          Attr("path", "Sources/Core"),
          Attr("sourceTree = \"<group>\";", ""),
          Close >>

----------------------------------------------------------------------------
\* Patching steps.

\* new_section = old_section.replace("/* End K section */", entries + "\t/* End K section */")
\* content = content.replace(old_section, new_section)
InsertIntoSection(content, kind, entries, esc) ==
    LET sp == SectionSpan(content, kind, esc)
    IN  IF sp[2] = 0 THEN content
        ELSE LET old_section == SubSeq(content, sp[1], sp[2])
                 new_section == ReplaceAll(old_section,
                                           <<EndMarker(kind, FALSE)>>,
                                           entries \o <<Ws("\t", esc), EndMarker(kind, FALSE)>>)
             IN  ReplaceAll(content, old_section, new_section)

\* The replacement of ");" that appends one member to a list.
AppendMember(def, member, esc) ==
    ReplaceAll(def, <<ListClose(FALSE)>>, <<member, Ws("\t\t\t", esc), ListClose(FALSE)>>)

\* fix_project.py: the reference to the Core group in the Sources group.
AddCoreToSourcesGroup(content, sources_core_group_uuid) ==
    LET sp == BlockSpan(content, "children", FALSE)
    IN  IF sp[2] = 0 THEN content
        ELSE LET sources_group_def == SubSeq(content, sp[1], sp[2])
             IN  IF \E i \in 1..Len(sources_group_def) : ContainsSourcesCore(sources_group_def[i])
                 THEN content
                 ELSE ReplaceAll(content, sources_group_def,
                                 AppendMember(sources_group_def,
                                              Item(sources_core_group_uuid, "Core", FALSE, FALSE),
                                              FALSE))

\* The loop over build_files that adds each build file to the matched
\* Sources build phase unless its identifier already occurs in it.
RECURSIVE SourcesBuildLoop(_, _, _, _, _)
SourcesBuildLoop(content, sources_build_def, files, build_files, esc) ==
    IF files = <<>> THEN content
    ELSE IF Head(build_files) \in IdsIn(sources_build_def)
         THEN SourcesBuildLoop(content, sources_build_def, Tail(files), Tail(build_files), esc)
         ELSE LET new_build_def ==
                      AppendMember(sources_build_def,
                                   Item(Head(build_files), basename(Head(files)), TRUE, esc),
                                   esc)
              IN  SourcesBuildLoop(ReplaceAll(content, sources_build_def, new_build_def),
                                   new_build_def, Tail(files), Tail(build_files), esc)

AddToSourcesBuildPhase(content, files, build_files, esc) ==
    LET sp == BlockSpan(content, "files", esc)
    IN  IF sp[2] = 0 THEN content
        ELSE SourcesBuildLoop(content, SubSeq(content, sp[1], sp[2]), files, build_files, esc)

\* The text fix_project.py holds in memory when it reaches the backup step.
FixProjectPatch(content, files, file_refs, build_files, sources_core_group_uuid) ==
    LET c1 == InsertIntoSection(content, "PBXFileReference",
                                fileref_section("fix_project", files, file_refs), FALSE)
        c2 == InsertIntoSection(c1, "PBXBuildFile",
                                buildfile_section("fix_project", files, file_refs, build_files), FALSE)
        c3 == AddCoreToSourcesGroup(c2, sources_core_group_uuid)
        c4 == InsertIntoSection(c3, "PBXGroup",
                                core_group_def(sources_core_group_uuid, files, file_refs), FALSE)
    IN  AddToSourcesBuildPhase(c4, files, build_files, FALSE)

\* The text add_missing_files.py holds in memory when it reaches the backup step.
AddMissingFilesPatch(content, files, file_refs, build_files) ==
    LET c1 == InsertIntoSection(content, "PBXFileReference",
                                fileref_section("add_missing_files", files, file_refs), TRUE)
        c2 == InsertIntoSection(c1, "PBXBuildFile",
                                buildfile_section("add_missing_files", files, file_refs, build_files), TRUE)
    IN  AddToSourcesBuildPhase(c2, files, build_files, TRUE)

\* The text simple_fix.py writes.
SimpleFixPatch(content, file_uuid, build_uuid) ==
    LET files == <<"Sources/Core/DIContainer.swift">>
        c1 == InsertIntoSection(content, "PBXFileReference",
                                fileref_section("simple_fix", files, <<file_uuid>>), FALSE)
        c2 == InsertIntoSection(c1, "PBXBuildFile",
                                buildfile_section("simple_fix", files, <<file_uuid>>, <<build_uuid>>), FALSE)
    IN  AddToSourcesBuildPhase(c2, files, <<build_uuid>>, FALSE)

\* content.replace('path = "<old>";', 'path = "<new>";') for each pair of a
\* script's path table; the escaped lines hold \" and are not matched.
RewritePaths(content, olds, news) ==
    [i \in 1..Len(content) |->
        IF /\ content[i].t \in {"FileRef", "Attr"}
           /\ ~content[i].esc
           /\ \E k \in 1..Len(olds) : olds[k] = content[i].path
        THEN [content[i] EXCEPT !.path =
                 news[CHOOSE k \in 1..Len(olds) : olds[k] = content[i].path]]
        ELSE content[i]]

\* fix_file_paths.py: the keys go through re.escape before the plain
\* str.replace, so the text looked for holds "\." in place of ".".
FixFilePathsOld ==
    << "DIContainer\\.swift", "ErrorHandler\\.swift", "AppEvents\\.swift",
       "EventBus\\.swift", "StateManager\\.swift",
       "ErrorHandlerIntegration\\.swift", "EventBusAdapter\\.swift" >>
FixFilePathsNew == FixProjectFilesToAdd

FixCorrectPathsOld ==
    << "Sources/Core/DIContainer.swift",
       "Sources/Configuration/ConfigurationManager.swift",
       "Sources/Controllers/VoiceInputController.swift",
       "Sources/States/AudioState.swift",
       "Sources/States/RecognitionState.swift",
       "Sources/States/AppState.swift" >>
FixCorrectPathsNew ==
    << "CapsWriter-mac/Sources/Core/DIContainer.swift",
       "CapsWriter-mac/Sources/Configuration/ConfigurationManager.swift",
       "CapsWriter-mac/Sources/Controllers/VoiceInputController.swift",
       "CapsWriter-mac/Sources/States/AudioState.swift",
       "CapsWriter-mac/Sources/States/RecognitionState.swift",
       "CapsWriter-mac/Sources/States/AppState.swift" >>

FixNestedPathsOld ==
    << "Sources/Core/DIContainer.swift",
       "Sources/Configuration/ConfigurationManager.swift",
       "Sources/Controllers/VoiceInputController.swift",
       "Sources/Protocols/ServiceProtocols.swift",
       "Sources/States/AudioState.swift",
       "Sources/States/RecognitionState.swift",
       "Sources/States/AppState.swift" >>
FixNestedPathsNew ==
    << "CapsWriter-mac/Sources/Core/DIContainer.swift",
       "CapsWriter-mac/Sources/Configuration/ConfigurationManager.swift",
       "CapsWriter-mac/Sources/Controllers/VoiceInputController.swift",
       "CapsWriter-mac/Sources/Protocols/ServiceProtocols.swift",
       "CapsWriter-mac/Sources/States/AudioState.swift",
       "CapsWriter-mac/Sources/States/RecognitionState.swift",
       "CapsWriter-mac/Sources/States/AppState.swift" >>

----------------------------------------------------------------------------
\* Identifiers.

\* The outcomes of n successive calls of generate_uuid(), up to renaming of
\* identifiers: uuid.uuid4() checks nothing, so each call returns either an
\* identifier that occurs nowhere yet (the least such one stands for all of
\* them) or one of those in `used`: the identifiers of the text being
\* patched and those returned earlier in the run.  `budget` bounds the
\* number of calls that return a used identifier.
RECURSIVE generate_uuid(_, _, _, _)
generate_uuid(used, fresh, n, budget) ==
    IF n = 0 THEN {<<>>}
    ELSE {<<fresh>> \o d : d \in generate_uuid(used \cup {fresh}, fresh + 1, n - 1, budget)}
         \cup
         (IF budget = 0 THEN {}
          ELSE UNION {{<<u>> \o d : d \in generate_uuid(used, fresh, n - 1, budget - 1)} : u \in used})

\* The calls of a run that returned an identifier already in use.
Collisions(d, fresh) ==
    Cardinality({i \in 1..Len(d) : d[i] < fresh \/ \E j \in 1..(i - 1) : d[j] = d[i]})

----------------------------------------------------------------------------
\* Manifests the scripts are run on.

FR == "PBXFileReference"
BF == "PBXBuildFile"
GR == "PBXGroup"
BP == "PBXSourcesBuildPhase"

Section(kind, body) == <<BeginMarker(kind, FALSE)>> \o body \o <<EndMarker(kind, FALSE)>>

AppStateRef == Tok("FileRef", 1, "AppState.swift", "Sources/States/AppState.swift", 0, FALSE, FALSE)
AppStateBuild == Tok("BuildFile", 2, "AppState.swift", "", 1, TRUE, FALSE)
DIContainerRef == Tok("FileRef", 5, "DIContainer.swift", "Sources/Core/DIContainer.swift", 0, FALSE, FALSE)
DIContainerBuild == Tok("BuildFile", 6, "DIContainer.swift", "", 5, TRUE, FALSE)

SourcesGroup(children) ==
    <<Hdr(3, "Sources", FALSE), Attr("isa = PBXGroup;", ""), ListOpen("children", FALSE)>>
    \o children
    \o <<ListClose(FALSE), Attr("path", "Sources"), Close>>

SourcesPhase(before, files) ==
    <<Hdr(4, "Sources", FALSE), Attr("isa = PBXSourcesBuildPhase;", "")>>
    \o before
    \o <<ListOpen("files", FALSE)>>
    \o files
    \o <<ListClose(FALSE), Close>>

Layout(bf, fr, gr, bp) ==
    <<Other("// !$*UTF8*$!")>> \o bf \o fr \o gr \o bp \o <<Other("rootObject")>>

StdBF == Section(BF, <<AppStateBuild>>)
StdFR == Section(FR, <<AppStateRef>>)
StdGR == Section(GR, SourcesGroup(<<Item(1, "AppState.swift", FALSE, FALSE)>>))
StdBP == Section(BP, SourcesPhase(<<>>, <<Item(2, "AppState.swift", TRUE, FALSE)>>))

Templates ==
    { "wellformed", "hasDIContainer", "noBuildFile", "noFileRef", "noGroupSection",
      "noSourcesGroup", "noBuildPhase", "dupFileRef", "twoLists", "backslash" }

Manifest(t) ==
    CASE t = "wellformed" -> Layout(StdBF, StdFR, StdGR, StdBP)
      [] t = "hasDIContainer" ->
           Layout(Section(BF, <<AppStateBuild, DIContainerBuild>>),
                  Section(FR, <<AppStateRef, DIContainerRef>>),
                  Section(GR, SourcesGroup(<<Item(1, "AppState.swift", FALSE, FALSE),
                                             Item(5, "DIContainer.swift", FALSE, FALSE)>>)),
                  Section(BP, SourcesPhase(<<>>, <<Item(2, "AppState.swift", TRUE, FALSE),
                                                   Item(6, "DIContainer.swift", TRUE, FALSE)>>)))
      [] t = "noBuildFile" -> Layout(<<>>, StdFR, StdGR, StdBP)
      [] t = "noFileRef" -> Layout(StdBF, <<>>, StdGR, StdBP)
      [] t = "noGroupSection" ->
           Layout(StdBF, StdFR, SourcesGroup(<<Item(1, "AppState.swift", FALSE, FALSE)>>), StdBP)
      [] t = "noSourcesGroup" -> Layout(StdBF, StdFR, Section(GR, <<>>), StdBP)
      [] t = "noBuildPhase" -> Layout(StdBF, StdFR, StdGR, Section(BP, <<>>))
      [] t = "dupFileRef" -> Layout(StdBF, Section(FR, <<>>) \o Section(FR, <<>>), StdGR, StdBP)
      [] t = "twoLists" ->
           Layout(StdBF, StdFR, StdGR,
                  Section(BP, SourcesPhase(<<ListOpen("dependencies", FALSE), ListClose(FALSE)>>,
                                           <<Item(2, "AppState.swift", TRUE, FALSE)>>)))
      [] OTHER ->
           Layout(<<BeginMarker(BF, TRUE), EndMarker(BF, FALSE), EndMarker(BF, TRUE)>>,
                  <<BeginMarker(FR, TRUE), EndMarker(FR, FALSE), EndMarker(FR, TRUE)>>,
                  <<>>,
                  <<Hdr(4, "Sources", TRUE), ListOpen("dependencies", FALSE), ListClose(FALSE),
                    ListOpen("files", TRUE), ListClose(TRUE), Close>>)

----------------------------------------------------------------------------
\* State.

VARIABLES
    disk,     \* the files: the manifest and the backups next to it
    pc,       \* where the running script is
    run,      \* the locals of the running script
    pre,      \* the files when the running script started
    log,      \* the writes the running script has made
    runs,     \* scripts that may still be started
    colls,    \* generate_uuid() calls that may still return a used identifier
    fails,    \* writes that may still fail
    tmpl      \* the manifest the first script was started on

vars == <<disk, pc, run, pre, log, runs, colls, fails, tmpl>>

project_path == "project.pbxproj"

BackupPaths ==
    { ".backup", ".missing_files_backup", ".path_fix_backup",
      ".correct_fix_backup", ".nested_fix_backup" }

Paths == {project_path} \cup BackupPaths

\* backup_path of each script: project_path plus this suffix.  simple_fix.py
\* reads the file at its backup_path; the other scripts write theirs.
backup_path(script) ==
    CASE script = "add_missing_files" -> ".missing_files_backup"
      [] script = "fix_file_paths" -> ".path_fix_backup"
      [] script = "fix_correct_paths" -> ".correct_fix_backup"
      [] script = "fix_nested_paths" -> ".nested_fix_backup"
      [] OTHER -> ".backup"

Absent == [exists |-> FALSE, text |-> <<>>]
File(text) == [exists |-> TRUE, text |-> text]

NoRun ==
    [script |-> "", base |-> <<>>, content |-> <<>>, files |-> <<>>,
     file_refs |-> <<>>, build_files |-> <<>>, group |-> 0, from_backup |-> FALSE]

InitFiles ==
    /\ tmpl \in Templates
    /\ disk = [p \in Paths |-> IF p = project_path THEN File(Manifest(tmpl)) ELSE Absent]
    /\ pc = "idle"
    /\ run = NoRun
    /\ pre = disk
    /\ log = <<>>

\* Sessions of up to MaxRuns scripts in which every generate_uuid() call
\* returns an identifier that occurs nowhere yet.
Init ==
    /\ InitFiles
    /\ runs = MaxRuns
    /\ colls = 0
    /\ fails = MaxIOFailures

\* Sessions of up to MaxIdRuns scripts in which up to MaxCollisions
\* generate_uuid() calls return an identifier already in use.
InitIds ==
    /\ InitFiles
    /\ runs = MaxIdRuns
    /\ colls = MaxCollisions
    /\ fails = MaxIOFailures

\* A script is started when no other is running.
CanStart == pc \in {"idle", "done", "failed"} /\ runs > 0

\* The least identifier that occurs in no file.
Fresh == 1 + Max({0} \cup UNION {IdsIn(disk[p].text) : p \in Paths})

Odd(d) == [i \in 1..(Len(d) \div 2) |-> d[2 * i - 1]]
Even(d) == [i \in 1..(Len(d) \div 2) |-> d[2 * i]]

Started(r, next, d) ==
    /\ run' = r
    /\ pc' = next
    /\ pre' = disk
    /\ log' = <<>>
    /\ runs' = runs - 1
    /\ colls' = colls - Collisions(d, Fresh)
    /\ UNCHANGED <<disk, fails, tmpl>>

\* fix_project.py up to the backup step.
add_files_to_xcode_project ==
    /\ CanStart
    /\ LET content == disk[project_path].text
           files == Take(FixProjectFilesToAdd, MaxFiles)
           n == Len(files)
       IN  \E d \in generate_uuid(IdsIn(content), Fresh, 2 * n + 1, colls) :
             Started([script |-> "fix_project",
                      base |-> content,
                      content |-> FixProjectPatch(content, files, Odd(d), Even(d), d[2 * n + 1]),
                      files |-> files,
                      file_refs |-> Odd(d),
                      build_files |-> Even(d),
                      group |-> d[2 * n + 1],
                      from_backup |-> FALSE], "backup", d)

\* add_missing_files.py up to the backup step.
add_missing_files ==
    /\ CanStart
    /\ LET content == disk[project_path].text
           files == Take(MissingFilesToAdd, MaxFiles)
           n == Len(files)
       IN  \E d \in generate_uuid(IdsIn(content), Fresh, 2 * n, colls) :
             Started([script |-> "add_missing_files",
                      base |-> content,
                      content |-> AddMissingFilesPatch(content, files, Odd(d), Even(d)),
                      files |-> files,
                      file_refs |-> Odd(d),
                      build_files |-> Even(d),
                      group |-> 0,
                      from_backup |-> FALSE], "backup", d)

\* The try/except of simple_fix.py: the text comes from the file at
\* backup_path, and from the manifest when opening that file raises.
simple_fix_read_manifest(files) == files[project_path].text
simple_fix_read(files) ==
    IF files[backup_path("simple_fix")].exists
    THEN files[backup_path("simple_fix")].text
    ELSE files[project_path].text

\* simple_fix.py up to the write.
simple_fix ==
    /\ CanStart
    /\ LET from_backup == disk[backup_path("simple_fix")].exists
           content == simple_fix_read(disk)
       IN  \E d \in generate_uuid(IdsIn(content), Fresh, 2, colls) :
             Started([script |-> "simple_fix",
                      base |-> content,
                      content |-> SimpleFixPatch(content, d[1], d[2]),
                      files |-> <<"Sources/Core/DIContainer.swift">>,
                      file_refs |-> <<d[1]>>,
                      build_files |-> <<d[2]>>,
                      group |-> 0,
                      from_backup |-> from_backup], "commit", d)

PathFix(script, olds, news) ==
    /\ CanStart
    /\ LET content == disk[project_path].text
       IN  Started([NoRun EXCEPT !.script = script,
                                 !.base = content,
                                 !.content = RewritePaths(content, olds, news)],
                   "backup", <<>>)

fix_file_paths == PathFix("fix_file_paths", FixFilePathsOld, FixFilePathsNew)
fix_correct_paths == PathFix("fix_correct_paths", FixCorrectPathsOld, FixCorrectPathsNew)
fix_nested_directory_paths == PathFix("fix_nested_paths", FixNestedPathsOld, FixNestedPathsNew)

\* with open(backup_path, 'w') as f: f.write(open(project_path, 'r').read())
BackupWrite ==
    /\ pc = "backup"
    /\ disk' = [disk EXCEPT ![backup_path(run.script)] = File(disk[project_path].text)]
    /\ log' = Append(log, "backup")
    /\ pc' = "commit"
    /\ UNCHANGED <<run, pre, runs, colls, fails, tmpl>>

\* The statement of BackupWrite raising: open() fails and leaves the backup
\* as it was, or it has truncated the backup and the read or the write fails.
\* The exception ends the script.
BackupWriteFails ==
    /\ pc = "backup"
    /\ fails > 0
    /\ \E truncated \in BOOLEAN :
         disk' = IF truncated
                 THEN [disk EXCEPT ![backup_path(run.script)] = File(<<>>)]
                 ELSE disk
    /\ log' = Append(log, "backup failed")
    /\ pc' = "failed"
    /\ fails' = fails - 1
    /\ UNCHANGED <<run, pre, runs, colls, tmpl>>

\* with open(project_path, 'w') as f: f.write(content)
CommitWrite ==
    /\ pc = "commit"
    /\ disk' = [disk EXCEPT ![project_path] = File(run.content)]
    /\ log' = Append(log, "manifest")
    /\ pc' = "done"
    /\ UNCHANGED <<run, pre, runs, colls, fails, tmpl>>

\* The same statement raising: open() fails and leaves the manifest as it
\* was, or it has truncated the manifest and the write fails.
CommitWriteFails ==
    /\ pc = "commit"
    /\ fails > 0
    /\ \E truncated \in BOOLEAN :
         /\ disk' = IF truncated
                    THEN [disk EXCEPT ![project_path] = File(<<>>)]
                    ELSE disk
         /\ log' = IF truncated THEN Append(log, "manifest truncated")
                   ELSE Append(log, "manifest failed")
    /\ pc' = "failed"
    /\ fails' = fails - 1
    /\ UNCHANGED <<run, pre, runs, colls, tmpl>>

Next ==
    \/ add_files_to_xcode_project
    \/ add_missing_files
    \/ simple_fix
    \/ fix_file_paths
    \/ fix_correct_paths
    \/ fix_nested_directory_paths
    \/ BackupWrite
    \/ BackupWriteFails
    \/ CommitWrite
    \/ CommitWriteFails

Spec == Init /\ [][Next]_vars

SpecIds == InitIds /\ [][Next]_vars

----------------------------------------------------------------------------
\* Vocabulary of the properties.

\* The scripts that register files.
Patchers == {"fix_project", "add_missing_files", "simple_fix"}

Patching == run.script \in Patchers

Positions(text, P(_)) == {i \in 1..Len(text) : P(text[i])}

Count(text, P(_)) == Cardinality(Positions(text, P))

\* The manifest on disk.
Manifest_now == disk[project_path].text

\* The path a script writes in the file reference of a file.
WrittenPath(script, file) == fileref_entry(script, 0, file).path

\* A file reference with the path this script would write for the file is
\* in the text.
Registered(text, script, file) ==
    \E i \in 1..Len(text) :
        text[i].t = "FileRef" /\ text[i].path = WrittenPath(script, file)

\* No path has two file references in the text.
NoDuplicatePath(text) ==
    \A i, j \in 1..Len(text) :
        (text[i].t = "FileRef" /\ text[j].t = "FileRef" /\ text[i].path = text[j].path)
            => i = j

\* The section has exactly one begin marker and one end marker, in order.
Located(text, kind) ==
    /\ Count(text, LAMBDA t : t = BeginMarker(kind, FALSE)) = 1
    /\ Count(text, LAMBDA t : t = EndMarker(kind, FALSE)) = 1
    /\ SectionSpan(text, kind, FALSE)[2] # 0

\* The sections a script inserts lines into.
SectionsNeeded(script) == IF script = "fix_project" THEN {FR, BF, GR} ELSE {FR, BF}

AllLocated(script, text) == \A k \in SectionsNeeded(script) : Located(text, k)

\* The text without the positions first..last of a span (none when last = 0).
Without(text, sp) ==
    IF sp[2] = 0 THEN text
    ELSE SubSeq(text, 1, sp[1] - 1) \o SubSeq(text, sp[2] + 1, Len(text))

WithoutSection(text, kind, esc) == Without(text, SectionSpan(text, kind, esc))

WithoutBlock(text, key, esc) == Without(text, BlockSpan(text, key, esc))

\* The text outside what the scripts locate: the file-reference, build-file,
\* group and Sources-build-phase sections, in either spelling of the markers,
\* and, where they stand outside those, the Sources group and the Sources
\* build phase.
OutsideSections(text) ==
    WithoutSection(WithoutSection(WithoutSection(WithoutSection(text, FR, FALSE),
                                                 BF, FALSE), GR, FALSE), BP, FALSE)

Outside(text) ==
    WithoutBlock(
        WithoutBlock(
            WithoutBlock(
                WithoutSection(WithoutSection(OutsideSections(text), FR, TRUE), BF, TRUE),
                "children", FALSE),
            "files", FALSE),
        "files", TRUE)

\* The identifiers the running script minted, in the order of the calls' roles.
Minted ==
    run.file_refs \o run.build_files \o (IF run.group = 0 THEN <<>> ELSE <<run.group>>)

\* The entries: file references, build files and list members.
IsEntry(tok) == tok.t \in {"FileRef", "BuildFile", "Item"}

\* What the running script renders for its i-th file: the file reference,
\* the build file, the child of the Core group and the build-phase member.
RenderedFor(i) ==
    { fileref_entry(run.script, run.file_refs[i], run.files[i]),
      buildfile_entry(run.script, run.build_files[i], run.file_refs[i], run.files[i]),
      Item(run.file_refs[i], basename(run.files[i]), FALSE, FALSE),
      Item(run.build_files[i], basename(run.files[i]), TRUE, run.script = "add_missing_files") }

\* An entry the running script rendered: one of a file, or the reference to
\* the Core group.
IsNew(tok) ==
    \/ \E i \in 1..Len(run.files) : tok \in RenderedFor(i)
    \/ run.group # 0 /\ tok = Item(run.group, "Core", FALSE, FALSE)

\* The place in files_to_add of the file a new entry is for; the reference
\* to the Core group comes after the files.
InputIndex(tok) ==
    IF \E i \in 1..Len(run.files) : tok \in RenderedFor(i)
    THEN Min({i \in 1..Len(run.files) : tok \in RenderedFor(i)})
    ELSE Len(run.files) + 1

\* The tokens that begin or end a table, a block or a list.
IsBoundary(tok) == tok.t \in {"Begin", "End", "Hdr", "ListOpen", "ListClose", "Close"}

\* The entry that follows position p in the same table or list, or 0.
NextEntry(text, p) ==
    LET q == FirstAfter(text, p, LAMBDA t : IsEntry(t) \/ IsBoundary(t))
    IN  IF q # 0 /\ IsEntry(text[q]) THEN q ELSE 0

\* s without the tokens that a left-to-right match of sub uses up.
RECURSIVE Extras(_, _)
Extras(s, sub) ==
    IF s = <<>> THEN <<>>
    ELSE IF sub # <<>> /\ Head(s) = Head(sub) THEN Extras(Tail(s), Tail(sub))
    ELSE <<Head(s)>> \o Extras(Tail(s), sub)

\* s is sub with tokens inserted.
RECURSIVE IsSubSeqOf(_, _)
IsSubSeqOf(sub, s) ==
    IF sub = <<>> THEN TRUE
    ELSE IF s = <<>> THEN FALSE
    ELSE IF Head(s) = Head(sub) THEN IsSubSeqOf(Tail(sub), Tail(s))
    ELSE IsSubSeqOf(sub, Tail(s))

\* What simple_fix.py adds for DIContainer.swift.
DIContainerAdditions ==
    { fileref_entry("simple_fix", run.file_refs[1], run.files[1]),
      buildfile_entry("simple_fix", run.build_files[1], run.file_refs[1], run.files[1]),
      Item(run.build_files[1], "DIContainer.swift", TRUE, FALSE),
      Ws("\t", FALSE), Ws("\t\t\t", FALSE) }

----------------------------------------------------------------------------
\* Properties.

\* C1: starting from a manifest that holds none of the paths, a patch that
\* finds one of its paths already registered as a file reference does not
\* complete (it fails with DuplicatePath), and the manifest never holds two
\* file references for one path.
C1_RerunRejected ==
    (tmpl = "wellformed" /\ Patching)
        => /\ pc = "done" => \A i \in 1..Len(run.files) :
                                ~Registered(run.base, run.script, run.files[i])
           /\ NoDuplicatePath(Manifest_now)

\* C2: in every run a write to the manifest comes after the write of the
\* backup, and once the write of the backup has failed the manifest on disk
\* is what it was when the run started and is not written afterwards.
C2_BackupBeforeCommit ==
    /\ \A j \in 1..Len(log) :
          log[j] \in {"manifest", "manifest truncated"}
              => \E i \in 1..(j - 1) : log[i] = "backup"
    /\ (\E i \in 1..Len(log) : log[i] = "backup failed")
          => /\ disk[project_path] = pre[project_path]
             /\ log[Len(log)] = "backup failed"

\* C3: when a run has overwritten the manifest, the file at its backup path
\* holds the text the manifest had before the overwrite.
C3_EveryOverwriteSnapshots ==
    pc = "done"
        => /\ disk[backup_path(run.script)].exists
           /\ disk[backup_path(run.script)].text = pre[project_path].text

\* C4: a patch that cannot locate one of its sections exactly once writes
\* neither the manifest nor the backup and does not complete.
C4_SectionLookupAllOrNothing ==
    (Patching /\ ~AllLocated(run.script, run.base))
        => disk = pre /\ pc # "done"

\* C5: the text outside the sections and blocks a patch locates is the same
\* before and after the patch.
C5_InsertionLocality ==
    Patching => Outside(run.content) = Outside(run.base)

\* C6: in the patched text the new entries of one table or list stand in the
\* order of files_to_add, and no entry that was there before follows a new
\* one: the entry after a new entry, in the same table or list, is a new
\* entry for the same or a later file.
C6_InputOrderPreserved ==
    Patching =>
        \A p \in 1..Len(run.content) :
            (IsNew(run.content[p]) /\ NextEntry(run.content, p) # 0)
            => LET next == run.content[NextEntry(run.content, p)]
               IN  /\ IsNew(next)
                   /\ InputIndex(run.content[p]) <= InputIndex(next)

\* C6 witness: fix_project.py has patched, for two files or more, a manifest
\* whose tables and lists already held entries.
C6_Witness ==
    /\ run.script = "fix_project"
    /\ pc = "done"
    /\ Len(run.files) >= 2
    /\ AllLocated("fix_project", run.base)
    /\ \A k \in {FR, BF} :
          LET sp == SectionSpan(run.content, k, FALSE)
          IN  /\ Count(SubSeq(run.content, sp[1], sp[2]), IsNew) = Len(run.files)
              /\ Count(SubSeq(run.content, sp[1], sp[2]), IsEntry) > Len(run.files)
    /\ Count(run.content, LAMBDA t : IsNew(t) /\ t.t = "Item" /\ t.ins) = Len(run.files)

\* C7: the identifiers minted in a run are pairwise distinct and none of them
\* occurs in the text being patched.
C7_IdentifiersUnique ==
    Patching =>
        /\ Cardinality(Range(Minted)) = Len(Minted)
        /\ Range(Minted) \cap IdsIn(run.base) = {}

\* C8: a manifest written by fix_project.py holds the definition of the new
\* Core group exactly when it holds the reference to it in a list.
C8_GroupWiringCoupled ==
    (run.script = "fix_project" /\ pc = "done")
        => ((\E i \in 1..Len(Manifest_now) : Manifest_now[i] = Hdr(run.group, "Core", FALSE))
            <=> (\E i \in 1..Len(Manifest_now) :
                    Manifest_now[i] = Item(run.group, "Core", FALSE, FALSE)))

\* The manifest has the file-reference and build-file sections and the
\* Sources build phase, each once, and none of the files of the run.
C9_Applies ==
    /\ Patching
    /\ Located(run.base, FR) /\ Located(run.base, BF) /\ Located(run.base, BP)
    /\ BlockSpan(run.base, "files", FALSE)[2] # 0
    /\ \A i \in 1..Len(run.files) :
          \A k \in 1..Len(run.base) :
              run.base[k].t = "FileRef"
                  => run.base[k].path \notin {run.files[i], basename(run.files[i])}

\* C9: on such a manifest the patch adds, for each file, one file reference
\* naming it, one build file for that reference and one build-phase member
\* for that build file.
C9_OneEntryOfEachKind ==
    C9_Applies =>
        \A i \in 1..Len(run.files) :
            /\ Count(run.content, LAMBDA t :
                    /\ t.t = "FileRef"
                    /\ t.id = run.file_refs[i]
                    /\ t.name = basename(run.files[i])
                    /\ t.path \in {run.files[i], basename(run.files[i])}) = 1
            /\ Count(run.content, LAMBDA t :
                    /\ t.t = "BuildFile"
                    /\ t.id = run.build_files[i]
                    /\ t.ref = run.file_refs[i]) = 1
            /\ Count(run.content, LAMBDA t :
                    /\ t.t = "Item" /\ t.ins
                    /\ t.id = run.build_files[i]) = 1

\* The text simple_fix.py must start from: the ".backup" file when there is
\* one to read, else the manifest.
C10_Base == IF pre[".backup"].exists THEN pre[".backup"].text ELSE pre[project_path].text

\* C10: simple_fix.py never changes the ".backup" file, and the manifest it
\* writes is the ".backup" text (the manifest when there is no ".backup")
\* with nothing but the DIContainer.swift additions inserted.
C10_SimpleFixRestoresBackup ==
    run.script = "simple_fix" =>
        /\ disk[".backup"] = pre[".backup"]
        /\ pc = "done" =>
              /\ IsSubSeqOf(C10_Base, Manifest_now)
              /\ Range(Extras(Manifest_now, C10_Base)) \subseteq DIContainerAdditions

\* C10 witness: simple_fix.py has written the manifest from a ".backup" that
\* holds the sections, after the manifest had moved away from that backup;
\* what it wrote is longer than the backup and does not hold the manifest it
\* replaced.
C10_Witness ==
    /\ run.script = "simple_fix"
    /\ pc = "done"
    /\ pre[".backup"].exists
    /\ AllLocated("simple_fix", pre[".backup"].text)
    /\ Len(pre[project_path].text) > Len(pre[".backup"].text)
    /\ Len(Manifest_now) > Len(pre[".backup"].text)
    /\ ~IsSubSeqOf(pre[project_path].text, Manifest_now)

====
